---- MODULE Spec2Model ----
(***************************************************************************)
(* Model of healer's corpus queue (src/src/fuzz/queue.rs): the Queue       *)
(* struct, select_idx's tier chain, append / append_inner, should_culling  *)
(* and culling.  Indices are 0-based as in the code; At(s, i) reads the    *)
(* element a Rust s[i] reads.  A Rust panic (an unwrap on None / Err, an   *)
(* integer division by zero) sets `panicked` and ends the queue's life.    *)
(***************************************************************************)
EXTENDS Integers, Sequences, FiniteSets, TLC

(* ------------------------------ bounds -------------------------------- *)
MaxInputs == 2
MaxCullInputs == 3
MaxScore == 1
MaxBranch == 2
MaxDepth == 1
MaxLen == 3
MaxAge == 2
CullingThreshold == 1
CullingDuration == 1
MaxSmallInputs == 2
MaxSweepInputs == 3
MaxId == 1
MaxJobs == 2
MaxRollInputs == 2
MaxWindowInputs == 10
MaxSyscall == 2
MaxCallInputs == 2
MaxFlagInputs == 2
MaxThresholdInputs == 4

(* ------------------------- program constants -------------------------- *)
WINDOW_SZ == 8
DISCARD_LEN == 2
DEFAULT_CULLING_THRESHOLD == 128
DEFAULT_CULLING_DURATION == 900
\* usize::MAX, the initial min_score.0; any value above every score serves.
USIZE_MAX == 2147483647

VARIABLES
    inputs, current, last_num, culling_threshold, culling_duration,
    favored, pending_favored, pending_none_favored, found_re, pending_found_re,
    self_contained, score_sheet, min_score, input_depth, current_age,
    call_cnt, id, queue_dir, stats,
    panicked, call, ret, tier, to_mutate, cull_order, cull_origin, discard,
    dumped, cullings, sweep, rolls, carried,
    jobs, files, main, workers, arrived, stop, installed, handler, fuzzers,
    joining, exit_code

qvars == <<inputs, current, last_num, culling_threshold, culling_duration,
           favored, pending_favored, pending_none_favored, found_re,
           pending_found_re, self_contained, score_sheet, min_score,
           input_depth, current_age, call_cnt, id, queue_dir, stats>>

\* What the model records about the calls made so far: the number of cullings
\* that returned, the window starts of the fallback selections made since the
\* last append, the rolls of the pending chain of the last select_idx, and
\* the number of inputs the culling before the last one discarded.
history == <<cullings, sweep, rolls, carried>>

\* files holds the queue directories that exist on disk.  dumped is the
\* result of the dump the last call made: "ok", "err" (which culling logs as
\* "failed to dump") or "none" when the call dumped nothing.
\* The process start() runs in: conf.jobs, the main thread's position, each worker thread's position and locals, the
\* threads that called barrier.wait(), the stop flag, whether the interrupt
\* handler is installed, the handler's position, the join handles, the handle
\* being joined and the exit status of the process.
bootvars == <<jobs, main, workers, arrived, stop, installed, handler,
              fuzzers, joining, exit_code>>

\* One worker's queue and the record of the calls made on it.
queuevars == <<inputs, current, last_num, culling_threshold, culling_duration,
               favored, pending_favored, pending_none_favored, found_re,
               pending_found_re, self_contained, score_sheet, min_score,
               input_depth, current_age, call_cnt, id, queue_dir, stats,
               panicked, call, ret, tier, to_mutate, cull_order, cull_origin,
               discard, dumped, cullings, sweep, rolls,
               carried>>

vars == <<inputs, current, last_num, culling_threshold, culling_duration,
          favored, pending_favored, pending_none_favored, found_re,
          pending_found_re, self_contained, score_sheet, min_score,
          input_depth, current_age, call_cnt, id, queue_dir, stats,
          panicked, call, ret, tier, to_mutate, cull_order, cull_origin,
          discard, dumped, cullings, sweep, rolls, carried,
          jobs, files, main, workers, arrived, stop, installed, handler,
          fuzzers, joining, exit_code>>

(* ------------------------------ helpers ------------------------------- *)
At(s, i) == s[i + 1]

Range(s) == {s[k] : k \in DOMAIN s}

Perms(n) == {p \in [1..n -> 1..n] : \A a, b \in 1..n : a # b => p[a] # p[b]}

\* Vec::remove(position of v): v occurs in f.
Remove(f, v) == SelectSeq(f, LAMBDA x : x # v)

\* Option<T>: None and Some(x).
None == <<>>
Some(x) == <<x>>

\* "no index": the value of ret when the last call returned none.
NoIdx == -1

(* ------------------------------ inputs -------------------------------- *)
Scores == 0..MaxScore
Branches == 1..MaxBranch
Lens == DISCARD_LEN..MaxLen
Depths == 0..MaxDepth
Syscalls == 1..MaxSyscall

\* p.calls: the syscall (c.meta) of each call of a program, in order.
Programs == UNION {[1..n -> Syscalls] : n \in Lens}

\* The fields of Input the queue reads or writes; len is the length of the
\* program.
InputDomain ==
    {d \in [len : Lens, calls : Programs, info : SUBSET Branches,
            favored : BOOLEAN, found_new_re : BOOLEAN,
            self_contained : BOOLEAN, was_mutated : BOOLEAN,
            depth : Depths] :
        Len(d.calls) = d.len}

\* Input::update_score: the composite fitness, a usize.
update_score(inp, s) == [inp EXCEPT !.score = s]

\* An input as handed to append: its flags as the caller set them, no score
\* yet, new_cov as the caller left it.
NewInput(d) ==
    [len |-> d.len, calls |-> d.calls, info |-> d.info, new_cov |-> d.info,
     favored |-> d.favored,
     found_new_re |-> d.found_new_re, self_contained |-> d.self_contained,
     was_mutated |-> d.was_mutated, depth |-> d.depth, score |-> 0]

(* ------------------------------- Queue -------------------------------- *)
\* FxHashMap::default()
EmptyMap == [c \in {} |-> 0]

\* *cnt.entry(c).or_default() += 1
CountCall(cnt, c) ==
    [x \in DOMAIN cnt \cup {c} |->
        IF x = c
        THEN (IF c \in DOMAIN cnt THEN cnt[c] ELSE 0) + 1
        ELSE cnt[x]]

\* for c in &p.calls { ... }: the table after the first k calls are counted.
RECURSIVE CountCalls(_, _, _)
CountCalls(cnt, calls, k) ==
    IF k = 0 THEN cnt
    ELSE CountCall(CountCalls(cnt, calls, k - 1), calls[k])

Queue_new(qid, dir) ==
    [id |-> qid, queue_dir |-> dir, stats |-> None,
     inputs |-> <<>>, current |-> 0, last_num |-> 0,
     culling_threshold |-> DEFAULT_CULLING_THRESHOLD,
     culling_duration |-> DEFAULT_CULLING_DURATION,
     favored |-> <<>>, pending_favored |-> <<>>, pending_none_favored |-> <<>>,
     found_re |-> <<>>, pending_found_re |-> <<>>, self_contained |-> <<>>,
     score_sheet |-> <<>>, min_score |-> <<USIZE_MAX, 0>>,
     input_depth |-> <<>>, current_age |-> 0, call_cnt |-> EmptyMap]

Self ==
    [inputs |-> inputs, current |-> current, last_num |-> last_num,
     culling_threshold |-> culling_threshold,
     culling_duration |-> culling_duration,
     favored |-> favored, pending_favored |-> pending_favored,
     pending_none_favored |-> pending_none_favored,
     found_re |-> found_re, pending_found_re |-> pending_found_re,
     self_contained |-> self_contained, score_sheet |-> score_sheet,
     min_score |-> min_score, input_depth |-> input_depth,
     current_age |-> current_age, call_cnt |-> call_cnt,
     id |-> id, queue_dir |-> queue_dir, stats |-> stats]

Install(q) ==
    /\ inputs' = q.inputs
    /\ current' = q.current
    /\ last_num' = q.last_num
    /\ culling_threshold' = q.culling_threshold
    /\ culling_duration' = q.culling_duration
    /\ favored' = q.favored
    /\ pending_favored' = q.pending_favored
    /\ pending_none_favored' = q.pending_none_favored
    /\ found_re' = q.found_re
    /\ pending_found_re' = q.pending_found_re
    /\ self_contained' = q.self_contained
    /\ score_sheet' = q.score_sheet
    /\ min_score' = q.min_score
    /\ input_depth' = q.input_depth
    /\ current_age' = q.current_age
    /\ call_cnt' = q.call_cnt
    /\ id' = q.id
    /\ queue_dir' = q.queue_dir
    /\ stats' = q.stats

len == Len(inputs)

(* ---------------------------- append_inner ---------------------------- *)
GrowDepth(buckets, depth) ==
    IF depth >= Len(buckets)
    THEN buckets \o [k \in 1..(depth + 1 - Len(buckets)) |-> <<>>]
    ELSE buckets

\* append_inner with found_new_re tested in the else branch of favored.
append_inner_ElseFoundRe(q, inp, idx) ==
    [q EXCEPT
       !.favored = IF inp.favored THEN Append(@, idx) ELSE @,
       !.pending_favored =
           IF inp.favored /\ ~inp.was_mutated THEN Append(@, idx) ELSE @,
       !.pending_none_favored =
           IF ~inp.favored /\ ~inp.was_mutated THEN Append(@, idx) ELSE @,
       !.found_re =
           IF ~inp.favored /\ inp.found_new_re THEN Append(@, idx) ELSE @,
       !.pending_found_re =
           IF ~inp.favored /\ inp.found_new_re /\ ~inp.was_mutated
           THEN Append(@, idx) ELSE @,
       !.self_contained = IF inp.self_contained THEN Append(@, idx) ELSE @,
       !.score_sheet = Append(@, <<inp.score, idx>>),
       !.min_score = IF inp.score < @[1] THEN <<inp.score, idx>> ELSE @,
       !.input_depth =
           LET grown == GrowDepth(@, inp.depth)
           IN  [grown EXCEPT ![inp.depth + 1] = Append(@, idx)],
       !.inputs = Append(@, inp)]

\* append_inner pushing (idx, score) on the score sheet.
append_inner_SwappedSheet(q, inp, idx) ==
    [q EXCEPT
       !.favored = IF inp.favored THEN Append(@, idx) ELSE @,
       !.pending_favored =
           IF inp.favored /\ ~inp.was_mutated THEN Append(@, idx) ELSE @,
       !.pending_none_favored =
           IF ~inp.favored /\ ~inp.was_mutated THEN Append(@, idx) ELSE @,
       !.found_re = IF inp.found_new_re THEN Append(@, idx) ELSE @,
       !.pending_found_re =
           IF inp.found_new_re /\ ~inp.was_mutated THEN Append(@, idx) ELSE @,
       !.self_contained = IF inp.self_contained THEN Append(@, idx) ELSE @,
       !.score_sheet = Append(@, <<idx, inp.score>>),
       !.min_score = IF inp.score < @[1] THEN <<inp.score, idx>> ELSE @,
       !.input_depth =
           LET grown == GrowDepth(@, inp.depth)
           IN  [grown EXCEPT ![inp.depth + 1] = Append(@, idx)],
       !.inputs = Append(@, inp)]

append_inner(q, inp, idx) ==
    [q EXCEPT
       !.favored = IF inp.favored THEN Append(@, idx) ELSE @,
       !.pending_favored =
           IF inp.favored /\ ~inp.was_mutated THEN Append(@, idx) ELSE @,
       !.pending_none_favored =
           IF ~inp.favored /\ ~inp.was_mutated THEN Append(@, idx) ELSE @,
       !.found_re = IF inp.found_new_re THEN Append(@, idx) ELSE @,
       !.pending_found_re =
           IF inp.found_new_re /\ ~inp.was_mutated THEN Append(@, idx) ELSE @,
       !.self_contained = IF inp.self_contained THEN Append(@, idx) ELSE @,
       !.score_sheet = Append(@, <<inp.score, idx>>),
       !.min_score = IF inp.score < @[1] THEN <<inp.score, idx>> ELSE @,
       !.input_depth =
           LET grown == GrowDepth(@, inp.depth)
           IN  [grown EXCEPT ![inp.depth + 1] = Append(@, idx)],
       !.inputs = Append(@, inp)]

(* --------------------------- should_culling --------------------------- *)
\* should_culling comparing the growth with >= instead of >.
should_culling_AtThreshold(q, elapsed) ==
    LET grown == IF Len(q.inputs) > q.last_num
                 THEN Len(q.inputs) - q.last_num >= q.culling_threshold
                 ELSE FALSE
    IN  IF ~grown THEN elapsed > q.culling_duration ELSE grown

\* elapsed is Instant::now() - self.last_culling as this call reads it.
should_culling(q, elapsed) ==
    LET grown == IF Len(q.inputs) > q.last_num
                 THEN Len(q.inputs) - q.last_num > q.culling_threshold
                 ELSE FALSE
    IN  IF ~grown THEN elapsed > q.culling_duration ELSE grown

(* ------------------------------ culling ------------------------------- *)
\* The comparator of sort_unstable_by: i0 must precede i1.
SortsBefore(i0, i1) ==
    IF i1.len # i0.len THEN i1.len < i0.len ELSE i1.score < i0.score

\* Every order an unstable sort may leave the corpus in: the permutations
\* without an inversion (equal keys in any order).
SortOrders(old) ==
    {p \in Perms(Len(old)) :
        \A a, b \in 1..Len(old) :
            a < b => ~SortsBefore(old[p[b]], old[p[a]])}

\* The running set cov after the first k inputs of the sorted corpus.
RECURSIVE Cov(_, _)
Cov(sorted, k) ==
    IF k = 0 THEN {} ELSE Cov(sorted, k - 1) \cup sorted[k].info

\* The branch merge without the running set: new_cov is all of info.
MergeBranches_NoRunningSet(sorted) ==
    [k \in 1..Len(sorted) |->
        [sorted[k] EXCEPT !.new_cov = sorted[k].info,
                          !.favored = (sorted[k].info # {})]]

\* The branch merge: each input's new_cov and favored for this generation.
MergeBranches(sorted) ==
    [k \in 1..Len(sorted) |->
        LET new_cov == sorted[k].info \ Cov(sorted, k - 1)
        IN  [sorted[k] EXCEPT !.new_cov = new_cov, !.favored = (new_cov # {})]]

\* The discard test without the favored check.
Discardable_AnyShort(merged) ==
    {k \in 1..Len(merged) : merged[k].len <= DISCARD_LEN}

\* The positions random::<bool>() decides on.
Discardable(merged) ==
    {k \in 1..Len(merged) :
        ~merged[k].favored /\ merged[k].len <= DISCARD_LEN}

\* The filter that counts a discard but keeps the input.
Retained_KeepAll(merged, dis) == [k \in 1..Len(merged) |-> k]

\* The positions kept, in sorted order, when those of dis are discarded.
Retained(merged, dis) ==
    SelectSeq([k \in 1..Len(merged) |-> k], LAMBDA k : k \notin dis)

\* A successor that inherits the depth buckets of the old queue.
Successor_KeepBuckets(q, old_len) ==
    [Queue_new(q.id, q.queue_dir) EXCEPT
       !.stats = q.stats,
       !.current_age = q.current_age + 1,
       !.last_num = old_len,
       !.culling_threshold = q.culling_threshold,
       !.culling_duration = q.culling_duration,
       !.input_depth = q.input_depth]

\* A successor that inherits the cursor of the old queue.
Successor_KeepCursor(q, old_len) ==
    [Queue_new(q.id, q.queue_dir) EXCEPT
       !.stats = q.stats,
       !.current = q.current,
       !.current_age = q.current_age + 1,
       !.last_num = old_len,
       !.culling_threshold = q.culling_threshold,
       !.culling_duration = q.culling_duration]

\* The successor queue before the retained inputs are re-appended.
Successor(q, old_len) ==
    [Queue_new(q.id, q.queue_dir) EXCEPT
       !.stats = q.stats,
       !.current_age = q.current_age + 1,
       !.last_num = old_len,
       !.culling_threshold = q.culling_threshold,
       !.culling_duration = q.culling_duration]

\* The table over the first j retained inputs.
RECURSIVE Recount(_, _)
Recount(kept, j) ==
    IF j = 0 THEN EmptyMap
    ELSE CountCalls(Recount(kept, j - 1), kept[j].calls, Len(kept[j].calls))

\* A successor that inherits the call-count table of the old queue.
WithCounts_Inherited(q, succ, kept) == [succ EXCEPT !.call_cnt = q.call_cnt]

\* queue.call_cnt = call_cnt: the successor succ of q with the table counted
\* over the retained inputs.
WithCounts(q, succ, kept) ==
    [succ EXCEPT !.call_cnt = Recount(kept, Len(kept))]

\* The re-append loop numbering the retained inputs from 1.
RECURSIVE Rebuild_FromOne(_, _, _)
Rebuild_FromOne(q, kept, j) ==
    IF j = 0 THEN q
    ELSE append_inner(Rebuild_FromOne(q, kept, j - 1), kept[j], j)

\* queue.append_inner(i, idx) over the first j retained inputs.
RECURSIVE Rebuild(_, _, _)
Rebuild(q, kept, j) ==
    IF j = 0 THEN q
    ELSE append_inner(Rebuild(q, kept, j - 1), kept[j], j - 1)

\* Queue::dump(out) on a disk where the directories fs exist: create_dir_all
\* makes out and, below it, the directory named after the generation, into
\* which one file per input is written.  Only the queue directories are
\* tracked.  The outcomes, which the file system decides: create_dir_all
\* fails before it made out (Err, nothing created); create_dir_all fails
\* below out, or a write fails (Err, out stays); every step succeeds (Ok).
dump(q, out, fs) ==
    {[ok |-> FALSE, files |-> fs],
     [ok |-> FALSE, files |-> fs \cup {out}],
     [ok |-> TRUE, files |-> fs \cup {out}]}

\* The result of a dump as the caller sees it.
Dumped(r) == IF r.ok THEN "ok" ELSE "err"

\* The end of culling: the installed queue q is dumped to its queue_dir, if
\* it has one.  An Err of dump is logged and ignored: culling returns either
\* way.
Persist(q, fs) ==
    IF q.queue_dir # None
    THEN {[dumped |-> Dumped(r), files |-> r.files] :
            r \in dump(q, q.queue_dir[1], fs)}
    ELSE {[dumped |-> "none", files |-> fs]}

\* culling on the queue q (self after append_inner).  cull_order, cull_origin
\* and discard record the pass: the sorted pre-culling corpus, for each new
\* index the sorted position its input came from, and the number discarded.
culling(q) ==
    \E p \in SortOrders(q.inputs) :
        LET sorted == [k \in 1..Len(q.inputs) |-> q.inputs[p[k]]]
            merged == MergeBranches(sorted)
        IN  \E dis \in SUBSET Discardable(merged) :
                LET pos == Retained(merged, dis)
                    m == Len(pos)
                IN  IF m = 0
                    THEN \* score / queue.inputs.len(): division by zero
                         /\ Install([q EXCEPT !.inputs = <<>>])
                         /\ panicked' = TRUE
                         /\ cull_order' = sorted
                         /\ cull_origin' = <<>>
                         /\ discard' = Cardinality(dis)
                         /\ cullings' = cullings
                         /\ files' = files
                         /\ dumped' = "none"
                    ELSE \E sh \in Perms(m), sc \in [1..m -> Scores] :
                            LET kept == [j \in 1..m |->
                                    update_score(merged[pos[sh[j]]], sc[j])]
                                succ == WithCounts(q,
                                            Successor(q, Len(q.inputs)), kept)
                            IN  /\ Install(Rebuild(succ, kept, m))
                                /\ \E o \in Persist(Rebuild(succ, kept, m),
                                                      files) :
                                      /\ files' = o.files
                                      /\ dumped' = o.dumped
                                /\ panicked' = FALSE
                                /\ cull_order' = sorted
                                /\ cull_origin' = [j \in 1..m |-> pos[sh[j]]]
                                /\ discard' = Cardinality(dis)
                                /\ cullings' = cullings + 1

(* ------------------------------- append ------------------------------- *)
\* The values Instant::now() - last_culling takes when append reads it.
Elapsed == {0, CullingDuration + 1}

append(d, elapsed) ==
    /\ ~panicked
    /\ \E s \in Scores :
          LET counted == [Self EXCEPT
                            !.call_cnt = CountCalls(@, d.calls, Len(d.calls))]
              inp == update_score(NewInput(d), s)
              q1 == append_inner(counted, inp, len)
          IN  IF should_culling(q1, elapsed)
              THEN /\ current_age < MaxAge
                   /\ culling(q1)
              ELSE /\ Install(q1)
                   /\ panicked' = FALSE
                   /\ cull_order' = <<>>
                   /\ cull_origin' = <<>>
                   /\ discard' = discard
                   /\ cullings' = cullings
                   /\ files' = files
                   /\ dumped' = "none"
    /\ call' = "append"
    /\ ret' = NoIdx
    /\ tier' = "none"
    /\ to_mutate' = FALSE

(* ----------------------------- select_idx ----------------------------- *)
\* rng.gen_range(1..=100)
gen_range == 1..100

\* Some roll passes / fails the test "roll <= t" (or "roll < t").
RollLe(t) == {r \in gen_range : r <= t} # {}
RollNotLe(t) == {r \in gen_range : ~(r <= t)} # {}
RollLt(t) == {r \in gen_range : r < t} # {}
RollNotLt(t) == {r \in gen_range : ~(r < t)} # {}

\* The guards of the if / else-if chains, in order: a tier is taken when its
\* set is non-empty and its roll passes, and skipped otherwise (&& does not
\* roll for an empty set).
TakePendingFavored == pending_favored # <<>> /\ RollLe(90)
SkipPendingFavored == IF pending_favored = <<>> THEN TRUE ELSE RollNotLe(90)
TakePendingFoundRe == pending_found_re # <<>> /\ RollLe(60)
SkipPendingFoundRe == IF pending_found_re = <<>> THEN TRUE ELSE RollNotLe(60)
TakePendingNoneFavored == pending_none_favored # <<>> /\ RollLt(30)
SkipPendingNoneFavored ==
    IF pending_none_favored = <<>> THEN TRUE ELSE RollNotLt(30)
SkipPending ==
    SkipPendingFavored /\ SkipPendingFoundRe /\ SkipPendingNoneFavored

TakeFavored == favored # <<>> /\ RollLe(50)
SkipFavored == IF favored = <<>> THEN TRUE ELSE RollNotLe(50)
TakeFoundRe == found_re # <<>> /\ RollLe(30)
SkipFoundRe == IF found_re = <<>> THEN TRUE ELSE RollNotLe(30)
TakeSelfContained == self_contained # <<>> /\ RollLe(10)
SkipSelfContained == IF self_contained = <<>> THEN TRUE ELSE RollNotLe(10)
TakeAgeWindow == current_age >= 1 /\ RollLe(10)
SkipAgeWindow == IF current_age >= 1 THEN RollNotLe(10) ELSE TRUE
TakeDeepest == RollLe(2)
SkipDeepest == RollNotLe(2)
SkipInteresting == SkipFavored /\ SkipFoundRe /\ SkipSelfContained

\* SliceRandom::choose_weighted over the indices cands with weight
\* inputs[i].score: an index of positive weight; none (an Err) when cands is
\* empty or every weight is 0.
WeightedChoices(cands, ins) == {i \in cands : At(ins, i).score > 0}

\* choose_weighted that removes idx from f but leaves was_mutated alone.
choose_weighted_NoMark(f, ins, idx, tm) ==
    IF tm
    THEN [f |-> Remove(f, idx), inputs |-> ins]
    ELSE [f |-> f, inputs |-> ins]

\* choose_weighted that consumes idx whatever to_mutate says.
choose_weighted_AlwaysConsume(f, ins, idx, tm) ==
    [f |-> Remove(f, idx),
     inputs |-> [ins EXCEPT ![idx + 1].was_mutated = TRUE]]

\* Queue::choose_weighted once idx is drawn: the pending set f and inputs.
choose_weighted(f, ins, idx, tm) ==
    IF tm
    THEN [f |-> Remove(f, idx),
          inputs |-> [ins EXCEPT ![idx + 1].was_mutated = TRUE]]
    ELSE [f |-> f, inputs |-> ins]

\* What a call leaves behind: the queue q, the tier that ended the call, the
\* index returned (NoIdx when it panicked).
Return(q, t, idx, tm) ==
    /\ Install(q)
    /\ call' = "select_idx"
    /\ tier' = t
    /\ ret' = idx
    /\ to_mutate' = tm
    /\ panicked' = (idx = NoIdx)
    /\ cull_order' = <<>>
    /\ cull_origin' = <<>>
    /\ discard' = discard
    /\ cullings' = cullings
    /\ files' = files
    /\ dumped' = "none"

SelectPendingFavored(tm) ==
    LET w == WeightedChoices(Range(pending_favored), inputs)
    IN  IF w = {}
        THEN Return(Self, "pending_favored", NoIdx, tm)
        ELSE \E idx \in w :
                LET c == choose_weighted(pending_favored, inputs, idx, tm)
                IN  Return([Self EXCEPT !.pending_favored = c.f,
                                        !.inputs = c.inputs],
                           "pending_favored", idx, tm)

SelectPendingFoundRe(tm) ==
    LET w == WeightedChoices(Range(pending_found_re), inputs)
    IN  IF w = {}
        THEN Return(Self, "pending_found_re", NoIdx, tm)
        ELSE \E idx \in w :
                LET c == choose_weighted(pending_found_re, inputs, idx, tm)
                IN  Return([Self EXCEPT !.pending_found_re = c.f,
                                        !.inputs = c.inputs],
                           "pending_found_re", idx, tm)

SelectPendingNoneFavored(tm) ==
    LET w == WeightedChoices(Range(pending_none_favored), inputs)
    IN  IF w = {}
        THEN Return(Self, "pending_none_favored", NoIdx, tm)
        ELSE \E idx \in w :
                LET c == choose_weighted(pending_none_favored, inputs, idx, tm)
                IN  Return([Self EXCEPT !.pending_none_favored = c.f,
                                        !.inputs = c.inputs],
                           "pending_none_favored", idx, tm)

\* A uniform pick that marks the input as mutated like a pending tier does.
SelectUniform_Consume(f, t, tm) ==
    IF f = <<>>
    THEN Return(Self, t, NoIdx, tm)
    ELSE \E idx \in Range(f) :
            Return([Self EXCEPT
                      !.inputs = choose_weighted(f, inputs, idx, tm).inputs],
                   t, idx, tm)

\* SliceRandom::choose on a durable set: any member (none: unwrap panics).
SelectUniform(f, t, tm) ==
    IF f = <<>>
    THEN Return(Self, t, NoIdx, tm)
    ELSE \E idx \in Range(f) : Return(Self, t, idx, tm)

\* The final tier: the window [current, min(current + WINDOW_SZ, len)).
FallbackWindow(q) ==
    LET start == q.current
        end == IF start + WINDOW_SZ > Len(q.inputs)
               THEN Len(q.inputs) ELSE start + WINDOW_SZ
    IN  start..(end - 1)

\* The cursor wrapping one position late.
AdvanceCurrent_NoWrap(q) ==
    IF q.current + 1 > Len(q.inputs) THEN 0 ELSE q.current + 1

AdvanceCurrent(q) ==
    IF q.current + 1 >= Len(q.inputs) THEN 0 ELSE q.current + 1

SelectFallback(tm) ==
    LET w == WeightedChoices(FallbackWindow(Self), inputs)
        q == [Self EXCEPT !.current = AdvanceCurrent(Self)]
    IN  IF w = {}
        THEN Return(q, "fallback", NoIdx, tm)
        ELSE \E idx \in w : Return(q, "fallback", idx, tm)

\* The start offsets of the score-sheet window: gen_range(0..len - WINDOW_SZ).
AgeWindowStarts ==
    IF len > 8 THEN 0..(len - WINDOW_SZ - 1) ELSE {0}

AgeWindow(start) ==
    LET end == IF len > 8 THEN start + WINDOW_SZ ELSE len
    IN  {score_sheet[k] : k \in (start + 1)..end}

SelectAgeWindow(tm) ==
    \E start \in AgeWindowStarts :
        LET w == {e \in AgeWindow(start) : e[1] > 0}
        IN  IF w = {}
            THEN SelectFallback(tm)
            ELSE \E e \in w : Return(Self, "age_window", e[2], tm)

SelectDeepest(tm) ==
    IF input_depth = <<>>
    THEN Return(Self, "deepest", NoIdx, tm)
    ELSE SelectUniform(input_depth[Len(input_depth)], "deepest", tm)

select_idx(tm) ==
    /\ ~panicked
    /\ \/ TakePendingFavored /\ SelectPendingFavored(tm)
       \/ SkipPendingFavored /\ TakePendingFoundRe /\ SelectPendingFoundRe(tm)
       \/ /\ SkipPendingFavored /\ SkipPendingFoundRe
          /\ TakePendingNoneFavored /\ SelectPendingNoneFavored(tm)
       \/ SkipPending /\ TakeFavored /\ SelectUniform(favored, "favored", tm)
       \/ /\ SkipPending /\ SkipFavored /\ TakeFoundRe
          /\ SelectUniform(found_re, "found_re", tm)
       \/ /\ SkipPending /\ SkipFavored /\ SkipFoundRe /\ TakeSelfContained
          /\ SelectUniform(self_contained, "self_contained", tm)
       \/ /\ SkipPending /\ SkipInteresting /\ TakeAgeWindow
          /\ SelectAgeWindow(tm)
       \/ /\ SkipPending /\ SkipInteresting /\ SkipAgeWindow /\ TakeDeepest
          /\ SelectDeepest(tm)
       \/ /\ SkipPending /\ SkipInteresting /\ SkipAgeWindow /\ SkipDeepest
          /\ SelectFallback(tm)

\* select_idx below the pending tiers: the chain of durable tiers and the
\* final window, entered once no pending tier was taken.
SelectRest(tm) ==
    \/ TakeFavored /\ SelectUniform(favored, "favored", tm)
    \/ SkipFavored /\ TakeFoundRe /\ SelectUniform(found_re, "found_re", tm)
    \/ /\ SkipFavored /\ SkipFoundRe /\ TakeSelfContained
       /\ SelectUniform(self_contained, "self_contained", tm)
    \/ SkipInteresting /\ TakeAgeWindow /\ SelectAgeWindow(tm)
    \/ SkipInteresting /\ SkipAgeWindow /\ TakeDeepest /\ SelectDeepest(tm)
    \/ SkipInteresting /\ SkipAgeWindow /\ SkipDeepest /\ SelectFallback(tm)

\* The rolls a call makes for the pending tiers when the generator would
\* yield r1, r2, r3 in that order: && rolls only for a non-empty set and
\* else-if only when the tier before was not taken. 0 stands for a roll that
\* was not made.
PendingRolls(r1, r2, r3) ==
    LET a == IF pending_favored # <<>> THEN r1 ELSE 0
        t1 == a # 0 /\ a <= 90
        b == IF ~t1 /\ pending_found_re # <<>> THEN r2 ELSE 0
        t2 == b # 0 /\ b <= 60
        c == IF ~t1 /\ ~t2 /\ pending_none_favored # <<>> THEN r3 ELSE 0
    IN  <<a, b, c>>

\* select_idx with the rolls of the pending tiers drawn explicitly and
\* recorded.
select_rolled(tm, r1, r2, r3) ==
    /\ ~panicked
    /\ rolls' = PendingRolls(r1, r2, r3)
    /\ IF pending_favored # <<>> /\ r1 <= 90
       THEN SelectPendingFavored(tm)
       ELSE IF pending_found_re # <<>> /\ r2 <= 60
       THEN SelectPendingFoundRe(tm)
       ELSE IF pending_none_favored # <<>> /\ r3 < 30
       THEN SelectPendingNoneFavored(tm)
       ELSE SelectRest(tm)

(* --------------------------- specification ---------------------------- *)
\* start() has not been called: the queue is driven directly.
BootIdle ==
    /\ jobs = 0
    /\ files = {}
    /\ main = "idle"
    /\ workers = <<>>
    /\ arrived = {}
    /\ stop = FALSE
    /\ installed = FALSE
    /\ handler = "idle"
    /\ fuzzers = <<>>
    /\ joining = None
    /\ exit_code = None

\* Queue::new, then the caller's thresholds (the fields are pub(crate)).
Init ==
    /\ inputs = Queue_new(0, None).inputs
    /\ current = Queue_new(0, None).current
    /\ last_num = Queue_new(0, None).last_num
    /\ culling_threshold = CullingThreshold
    /\ culling_duration = CullingDuration
    /\ favored = Queue_new(0, None).favored
    /\ pending_favored = Queue_new(0, None).pending_favored
    /\ pending_none_favored = Queue_new(0, None).pending_none_favored
    /\ found_re = Queue_new(0, None).found_re
    /\ pending_found_re = Queue_new(0, None).pending_found_re
    /\ self_contained = Queue_new(0, None).self_contained
    /\ score_sheet = Queue_new(0, None).score_sheet
    /\ min_score = Queue_new(0, None).min_score
    /\ input_depth = Queue_new(0, None).input_depth
    /\ call_cnt = Queue_new(0, None).call_cnt
    /\ current_age = Queue_new(0, None).current_age
    /\ panicked = FALSE
    /\ call = "new"
    /\ ret = NoIdx
    /\ tier = "none"
    /\ to_mutate = FALSE
    /\ cull_order = <<>>
    /\ cull_origin = <<>>
    /\ discard = 0
    /\ dumped = "none"
    /\ id = 0
    /\ queue_dir = None
    /\ stats = None
    /\ cullings = 0
    /\ sweep = <<>>
    /\ rolls = <<>>
    /\ carried = 0
    /\ BootIdle

\* The inputs append is handed under Spec: a plain input (longest program,
\* no branch, no flag, depth 0) varied along one group of fields at a time:
\* its program, coverage (none or every branch) and favored flag, its flags
\* (favored and found_new_re, or self_contained), or its depth.
Plain(d) ==
    [calls |-> \A k \in DOMAIN d.calls : d.calls[k] = 1,
     len |-> d.len = MaxLen /\ d.info = {},
     flags |-> /\ ~d.favored /\ ~d.found_new_re /\ ~d.self_contained
               /\ ~d.was_mutated,
     depth |-> d.depth = 0]

Inputs ==
    {d \in InputDomain :
        /\ Plain(d).calls
        /\ ~d.was_mutated
        /\ d.info \in {{}, Branches}
        /\ d.self_contained => ~d.favored /\ ~d.found_new_re
        /\ \/ ~d.found_new_re /\ ~d.self_contained /\ Plain(d).depth
           \/ Plain(d).len /\ Plain(d).depth
           \/ Plain(d).len /\ Plain(d).flags}

\* The inputs append is handed under SpecNoTimer: every program length and
\* every coverage, no flag, depth 0.
CullInputs ==
    {d \in InputDomain : Plain(d).calls /\ Plain(d).flags /\ Plain(d).depth}

Next ==
    \/ \E d \in Inputs, elapsed \in Elapsed :
          /\ len < MaxInputs
          /\ append(d, elapsed)
          /\ UNCHANGED <<sweep, rolls, carried, bootvars>>
    \/ \E tm \in BOOLEAN :
          select_idx(tm) /\ UNCHANGED <<sweep, rolls, carried, bootvars>>

Spec == Init /\ [][Next]_vars

\* A larger corpus, grown by appends alone, of inputs that differ in program
\* and coverage only, under a culling_duration that never elapses and a
\* culling_threshold the caller picks.
InitNoTimer ==
    /\ inputs = Queue_new(0, None).inputs
    /\ current = Queue_new(0, None).current
    /\ last_num = Queue_new(0, None).last_num
    /\ culling_threshold \in CullingThreshold..(MaxCullInputs - 1)
    /\ culling_duration = CullingDuration
    /\ favored = Queue_new(0, None).favored
    /\ pending_favored = Queue_new(0, None).pending_favored
    /\ pending_none_favored = Queue_new(0, None).pending_none_favored
    /\ found_re = Queue_new(0, None).found_re
    /\ pending_found_re = Queue_new(0, None).pending_found_re
    /\ self_contained = Queue_new(0, None).self_contained
    /\ score_sheet = Queue_new(0, None).score_sheet
    /\ min_score = Queue_new(0, None).min_score
    /\ input_depth = Queue_new(0, None).input_depth
    /\ call_cnt = Queue_new(0, None).call_cnt
    /\ current_age = Queue_new(0, None).current_age
    /\ panicked = FALSE
    /\ call = "new"
    /\ ret = NoIdx
    /\ tier = "none"
    /\ to_mutate = FALSE
    /\ cull_order = <<>>
    /\ cull_origin = <<>>
    /\ discard = 0
    /\ dumped = "none"
    /\ id = 0
    /\ queue_dir = None
    /\ stats = None
    /\ cullings = 0
    /\ sweep = <<>>
    /\ rolls = <<>>
    /\ carried = 0
    /\ BootIdle

NextNoTimer ==
    \E d \in CullInputs :
        /\ len < MaxCullInputs
        /\ append(d, 0)
        /\ UNCHANGED <<sweep, rolls, carried, bootvars>>

SpecNoTimer == InitNoTimer /\ [][NextNoTimer]_vars

\* A small corpus of inputs that differ in program length and depth only,
\* owned by worker id (worker 0 alone records stats), with or without a
\* queue directory; appends, selections and cullings in any order.  sweep
\* records where the fallback windows of the selections made since the last
\* append started (the last len of them).
SmallInputs ==
    {d \in InputDomain : Plain(d).calls /\ d.info = {} /\ Plain(d).flags}

\* Queue::new(qid, dir), then the caller's stats handle st and thresholds.
InitWith(qid, dir, st, k) ==
    /\ id = Queue_new(qid, dir).id
    /\ queue_dir = Queue_new(qid, dir).queue_dir
    /\ stats = st
    /\ inputs = Queue_new(qid, dir).inputs
    /\ current = Queue_new(qid, dir).current
    /\ last_num = Queue_new(qid, dir).last_num
    /\ culling_threshold = k
    /\ culling_duration = CullingDuration
    /\ favored = Queue_new(qid, dir).favored
    /\ pending_favored = Queue_new(qid, dir).pending_favored
    /\ pending_none_favored = Queue_new(qid, dir).pending_none_favored
    /\ found_re = Queue_new(qid, dir).found_re
    /\ pending_found_re = Queue_new(qid, dir).pending_found_re
    /\ self_contained = Queue_new(qid, dir).self_contained
    /\ score_sheet = Queue_new(qid, dir).score_sheet
    /\ min_score = Queue_new(qid, dir).min_score
    /\ input_depth = Queue_new(qid, dir).input_depth
    /\ call_cnt = Queue_new(qid, dir).call_cnt
    /\ current_age = Queue_new(qid, dir).current_age
    /\ panicked = FALSE
    /\ call = "new"
    /\ ret = NoIdx
    /\ tier = "none"
    /\ to_mutate = FALSE
    /\ cull_order = <<>>
    /\ cull_origin = <<>>
    /\ discard = 0
    /\ dumped = "none"
    /\ cullings = 0
    /\ sweep = <<>>
    /\ rolls = <<>>
    /\ carried = 0

\* The queue of worker qid: worker 0 alone records stats.
Handles ==
    {[id |-> qid,
      queue_dir |-> IF on_disk THEN Some(<<"out_dir", "queue", qid>>)
                    ELSE None,
      stats |-> IF qid = 0 THEN Some("stats") ELSE None] :
        qid \in 0..MaxId, on_disk \in BOOLEAN}

InitSmall ==
    /\ \E h \in Handles :
          InitWith(h.id, h.queue_dir, h.stats, CullingThreshold)
    /\ BootIdle

\* sweep after a selection: a fallback selection adds the start of its window.
Swept ==
    IF tier' = "fallback" /\ len >= 1
    THEN IF Len(sweep) < len THEN Append(sweep, current)
         ELSE Append(Tail(sweep), current)
    ELSE sweep

NextSmall ==
    \/ \E d \in SmallInputs, elapsed \in Elapsed :
          /\ len < MaxSmallInputs
          /\ append(d, elapsed)
          /\ sweep' = <<>>
          /\ rolls' = rolls
          /\ UNCHANGED <<carried, bootvars>>
    \/ \E tm \in BOOLEAN :
          /\ select_idx(tm)
          /\ sweep' = Swept
          /\ rolls' = rolls
          /\ UNCHANGED <<carried, bootvars>>

SpecSmall == InitSmall /\ [][NextSmall]_vars

\* A corpus of up to MaxSweepInputs inputs that differ in program length
\* only, under a culling_duration that never elapses and a culling_threshold
\* of CullingThreshold + 1.
SweepInputs == {d \in SmallInputs : Plain(d).depth}

\* Appends alone, of inputs that carry every combination of the four flags
\* (a short input carries none), under a culling_threshold of
\* CullingThreshold and a culling_duration that never elapses: the second
\* append culls, and an append after a culling that discarded does not.
FlagInputs ==
    {d \in InputDomain :
        /\ Plain(d).calls /\ d.info = {} /\ Plain(d).depth
        /\ d.len = MaxLen \/ Plain(d).flags}

InitFlags == InitWith(0, None, None, CullingThreshold) /\ BootIdle

NextFlags ==
    \E d \in FlagInputs :
        /\ len < MaxFlagInputs
        /\ append(d, 0)
        /\ UNCHANGED <<sweep, rolls, carried, bootvars>>

SpecFlags == InitFlags /\ [][NextFlags]_vars

\* Appends alone, of inputs that differ in program length only, under a
\* culling_threshold of CullingThreshold and a culling_duration that never
\* elapses, until the second culling.  Short inputs, which a culling may
\* discard, arrive before the first culling; the inputs appended after it
\* have MaxLen calls.  carried records, at each culling, the number of inputs
\* the culling before it discarded (0 for the first).
ThresholdInputs ==
    {d \in SweepInputs : current_age = 0 \/ d.len = MaxLen}

InitThreshold == InitWith(0, None, None, CullingThreshold) /\ BootIdle

NextThreshold ==
    \E d \in ThresholdInputs :
        /\ len < MaxThresholdInputs
        /\ current_age < MaxAge
        /\ append(d, 0)
        /\ carried' = IF cull_order' # <<>> THEN discard ELSE carried
        /\ UNCHANGED <<sweep, rolls, bootvars>>

SpecThreshold == InitThreshold /\ [][NextThreshold]_vars

\* A call of the public Queue::dump(out), which returns Ok or Err.
Dump(out) ==
    /\ ~panicked
    /\ \E r \in dump(Self, out, files) :
          /\ files' = r.files
          /\ dumped' = Dumped(r)
    /\ call' = "dump"
    /\ ret' = NoIdx
    /\ tier' = "none"
    /\ to_mutate' = FALSE
    /\ panicked' = FALSE
    /\ cull_order' = <<>>
    /\ cull_origin' = <<>>
    /\ discard' = discard
    /\ cullings' = cullings
    /\ UNCHANGED qvars

\* Appends and select_idx(false) on the queue of any worker, and dumps of a
\* queue to its own directory.
InitHandles ==
    /\ \E h \in Handles :
          InitWith(h.id, h.queue_dir, h.stats, CullingThreshold + 1)
    /\ BootIdle

NextHandles ==
    \/ \E d \in SweepInputs :
          /\ len < MaxSweepInputs
          /\ append(d, 0)
          /\ UNCHANGED <<sweep, rolls, carried, bootvars>>
    \/ select_idx(FALSE) /\ UNCHANGED <<sweep, rolls, carried, bootvars>>
    \/ /\ queue_dir # None
       /\ Dump(queue_dir[1])
       /\ UNCHANGED <<sweep, rolls, carried, bootvars>>

SpecHandles == InitHandles /\ [][NextHandles]_vars

\* Appends and select_idx(false) on the queue of worker 0 (queue_dir, stats)
\* or of worker 1 (neither), under a culling_threshold of CullingThreshold.
\* The first culling is that of the second append; the culling_duration may
\* have elapsed at any append after it, which then culls a second time, a
\* corpus of up to MaxSweepInputs inputs in which the selections have moved
\* the cursor.  Short inputs arrive before the first culling
\* (ThresholdInputs).
InitSuccessor ==
    /\ \E h \in Handles :
          /\ (h.queue_dir # None) <=> (h.id = 0)
          /\ InitWith(h.id, h.queue_dir, h.stats, CullingThreshold)
    /\ BootIdle

NextSuccessor ==
    \/ \E d \in ThresholdInputs, elapsed \in Elapsed :
          /\ len < MaxSweepInputs
          /\ current_age = 0 => elapsed = 0
          /\ append(d, elapsed)
          /\ UNCHANGED <<sweep, rolls, carried, bootvars>>
    \/ select_idx(FALSE) /\ UNCHANGED <<sweep, rolls, carried, bootvars>>

SpecSuccessor == InitSuccessor /\ [][NextSuccessor]_vars

\* The queue of Queue::new(0, None) after n appends of one input of length
\* MaxLen, no coverage, no flag, depth 0, scored 1, none of which culled.
RECURSIVE Filled(_)
Filled(n) ==
    IF n = 0
    THEN Queue_new(0, None)
    ELSE LET d == CHOOSE d \in SweepInputs : Plain(d).len
             counted == [Filled(n - 1) EXCEPT
                            !.call_cnt = CountCalls(@, d.calls, Len(d.calls))]
         IN  append_inner(counted, update_score(NewInput(d), 1), n - 1)

\* The state an append left the queue q in.
InitFrom(q) ==
    /\ id = q.id
    /\ queue_dir = q.queue_dir
    /\ stats = q.stats
    /\ inputs = q.inputs
    /\ current = q.current
    /\ last_num = q.last_num
    /\ culling_threshold = q.culling_threshold
    /\ culling_duration = q.culling_duration
    /\ favored = q.favored
    /\ pending_favored = q.pending_favored
    /\ pending_none_favored = q.pending_none_favored
    /\ found_re = q.found_re
    /\ pending_found_re = q.pending_found_re
    /\ self_contained = q.self_contained
    /\ score_sheet = q.score_sheet
    /\ min_score = q.min_score
    /\ input_depth = q.input_depth
    /\ call_cnt = q.call_cnt
    /\ current_age = q.current_age
    /\ panicked = FALSE
    /\ call = "append"
    /\ ret = NoIdx
    /\ tier = "none"
    /\ to_mutate = FALSE
    /\ cull_order = <<>>
    /\ cull_origin = <<>>
    /\ discard = 0
    /\ dumped = "none"
    /\ cullings = q.current_age
    /\ sweep = <<>>
    /\ rolls = <<>>
    /\ carried = 0

\* Appends and selections on one queue, sweep recorded: a queue grown from
\* empty to MaxSweepInputs inputs under a culling_threshold of
\* CullingThreshold + 1, and a queue of MaxWindowInputs inputs (more than one
\* window) under the default thresholds, selected from without mutation.
InitSweep ==
    /\ \/ InitWith(0, None, None, CullingThreshold + 1)
       \/ InitFrom(Filled(MaxWindowInputs))
    /\ BootIdle

NextSweep ==
    \/ \E d \in SweepInputs :
          /\ len < MaxSweepInputs
          /\ append(d, 0)
          /\ sweep' = <<>>
          /\ rolls' = rolls
          /\ UNCHANGED <<carried, bootvars>>
    \/ \E tm \in IF len <= MaxSweepInputs THEN BOOLEAN ELSE {FALSE} :
          /\ select_idx(tm)
          /\ sweep' = Swept
          /\ rolls' = rolls
          /\ UNCHANGED <<carried, bootvars>>

SpecSweep == InitSweep /\ [][NextSweep]_vars

\* One outcome of culling on Filled(n) once culling_duration has elapsed: the
\* sort and the shuffle leave the order as it was, no input is discarded
\* (each has length MaxLen) and every input is scored 1 again.
Aged(n) ==
    LET q == Filled(n)
        merged == MergeBranches(q.inputs)
        kept == [j \in 1..n |-> update_score(merged[j], 1)]
    IN  Rebuild(WithCounts(q, Successor(q, n), kept), kept, n)

\* Corpus sizes at and above the window size.
AgedSizes == {WINDOW_SZ, WINDOW_SZ + 1, MaxWindowInputs}

\* Selections without mutation on a corpus that has been culled once.
InitAged == (\E n \in AgedSizes : InitFrom(Aged(n))) /\ BootIdle

NextAged ==
    select_idx(FALSE) /\ UNCHANGED <<sweep, rolls, carried, bootvars>>

SpecAged == InitAged /\ [][NextAged]_vars

\* The call-count table: up to MaxCallInputs inputs that differ in program
\* (every sequence of Syscalls of each length) and score, culled on growth.
CallInputs ==
    {d \in InputDomain : d.info = {} /\ Plain(d).flags /\ Plain(d).depth}

InitCalls == InitWith(0, None, None, CullingThreshold) /\ BootIdle

NextCalls ==
    \/ \E d \in CallInputs :
          /\ len < MaxCallInputs
          /\ append(d, 0)
          /\ UNCHANGED <<sweep, rolls, carried, bootvars>>
    \/ \E tm \in BOOLEAN :
          select_idx(tm) /\ UNCHANGED <<sweep, rolls, carried, bootvars>>

SpecCalls == InitCalls /\ [][NextCalls]_vars

\* The pending tiers with their rolls: up to MaxRollInputs inputs that differ
\* in the favored and found_new_re flags and in score, no culling.
RollInputs ==
    {d \in InputDomain :
        /\ Plain(d).calls /\ ~d.was_mutated
        /\ Plain(d).len /\ Plain(d).depth /\ ~d.self_contained}

\* The outcomes of gen_range(1..=100) next to a threshold t.
RollsAround(t) == {r \in gen_range : r >= t - 1 /\ r <= t + 1}

\* The rolls a call can make in the current state.
RollsMade ==
    {PendingRolls(r1, r2, r3) :
        r1 \in RollsAround(90), r2 \in RollsAround(60), r3 \in RollsAround(30)}

InitRolls == InitWith(0, None, None, DEFAULT_CULLING_THRESHOLD) /\ BootIdle

NextRolls ==
    \/ \E d \in RollInputs :
          /\ len < MaxRollInputs
          /\ append(d, 0)
          /\ UNCHANGED <<sweep, rolls, carried, bootvars>>
    \/ \E tm \in BOOLEAN, made \in RollsMade :
          /\ select_rolled(tm, made[1], made[2], made[3])
          /\ UNCHANGED <<sweep, carried, bootvars>>

SpecRolls == InitRolls /\ [][NextRolls]_vars

(* ------------------------------- start -------------------------------- *)
\* Result<T, E>.
Ok(x) == [ok |-> TRUE, val |-> Some(x), err |-> None]
Err(e) == [ok |-> FALSE, val |-> None, err |-> Some(e)]

\* Queue::load: in-place resume is not implemented.
load(qid, f) == Err("Unimplemented")

\* with_workdir replacing whatever is on disk by a fresh queue.
with_workdir_Overwrite(qid, work_dir, exist) ==
    Ok(Queue_new(qid, Some(<<work_dir, "queue", qid>>)))

\* Queue::with_workdir in a file system where the directories of `exist`
\* exist.
with_workdir(qid, work_dir, exist) ==
    LET dir == <<work_dir, "queue", qid>>
    IN  IF dir \in exist THEN load(qid, work_dir)
        ELSE Ok(Queue_new(qid, Some(dir)))

\* Barrier::new(conf.jobs + 1)
BarrierSize_Jobs(n) == n
BarrierSize(n) == n + 1

\* barrier.wait() returns once as many threads as the barrier's size called it.
Released == Cardinality(arrived) >= BarrierSize(jobs)

Running == exit_code = None

\* The threads: worker id is thread id, the main thread comes after them.
WorkerIds == 0..(jobs - 1)
MainThread == jobs

\* A worker thread before thread::spawn.
Unborn == [pc |-> "unborn", queue |-> None, exec_handle |-> FALSE,
           features |-> FALSE]

\* for id in 0..conf.jobs: thread::spawn, fuzzers.push(handle)
MainSpawn ==
    /\ Running /\ main = "spawn" /\ Len(fuzzers) < jobs
    /\ workers' = [workers EXCEPT ![Len(fuzzers)].pc = "start"]
    /\ fuzzers' = Append(fuzzers, Len(fuzzers))
    /\ UNCHANGED <<jobs, files, main, arrived, stop, installed, handler,
                   joining, exit_code>>

\* The main thread calls barrier.wait().
MainArrive ==
    /\ Running /\ main = "spawn" /\ Len(fuzzers) = jobs
    /\ main' = "barrier"
    /\ arrived' = arrived \cup {MainThread}
    /\ UNCHANGED <<jobs, files, workers, stop, installed, handler, fuzzers,
                   joining, exit_code>>

\* barrier.wait() returns in the main thread.
MainPass ==
    /\ Running /\ main = "barrier" /\ Released
    /\ main' = "set_handler"
    /\ UNCHANGED <<jobs, files, workers, arrived, stop, installed, handler,
                   fuzzers, joining, exit_code>>

\* ctrlc::set_handler
MainSetHandler ==
    /\ Running /\ main = "set_handler"
    /\ installed' = TRUE
    /\ main' = "log"
    /\ UNCHANGED <<jobs, files, workers, arrived, stop, handler, fuzzers,
                   joining, exit_code>>

\* log::info!("Boot finished ..."), then bench.
MainLog ==
    /\ Running /\ main = "log"
    /\ main' = "bench"
    /\ UNCHANGED <<jobs, files, workers, arrived, stop, installed, handler,
                   fuzzers, joining, exit_code>>

\* The worker initialises its queue, or exits the process.
WorkerQueue(w) ==
    /\ Running /\ workers[w].pc = "start"
    /\ LET r == with_workdir(w, "out_dir", files)
       IN  IF r.ok
           THEN LET q == r.val[1]
                    queue == IF w = 0 THEN [q EXCEPT !.stats = Some("stats")]
                             ELSE q
                IN  /\ workers' = [workers EXCEPT ![w].pc = "exec",
                                                  ![w].queue = Some(queue)]
                    /\ exit_code' = exit_code
           ELSE /\ workers' = [workers EXCEPT ![w].pc = "exited"]
                /\ exit_code' = Some(1)
    /\ UNCHANGED <<jobs, files, main, arrived, stop, installed, handler,
                   fuzzers, joining>>

\* A worker that logs the boot failure and carries on without a backend.
WorkerBoot_Continue(w) ==
    /\ Running /\ workers[w].pc = "exec"
    /\ \E booted \in BOOLEAN :
          /\ workers' = [workers EXCEPT ![w].pc = "features",
                                        ![w].exec_handle = booted]
          /\ exit_code' = exit_code
    /\ UNCHANGED <<jobs, files, main, arrived, stop, installed, handler,
                   fuzzers, joining>>

\* exec::spawn_in_qemu boots the backend, or fails and the worker exits the
\* process.
WorkerBoot(w) ==
    /\ Running /\ workers[w].pc = "exec"
    /\ \E booted \in BOOLEAN :
          IF booted
          THEN /\ workers' = [workers EXCEPT ![w].pc = "features",
                                             ![w].exec_handle = TRUE]
               /\ exit_code' = exit_code
          ELSE /\ workers' = [workers EXCEPT ![w].pc = "exited"]
               /\ exit_code' = Some(1)
    /\ UNCHANGED <<jobs, files, main, arrived, stop, installed, handler,
                   fuzzers, joining>>

\* features::check
WorkerFeatures(w) ==
    /\ Running /\ workers[w].pc = "features"
    /\ workers' = [workers EXCEPT ![w].pc = "arrive", ![w].features = TRUE]
    /\ UNCHANGED <<jobs, files, main, arrived, stop, installed, handler,
                   fuzzers, joining, exit_code>>

\* The worker calls barrier.wait().
WorkerArrive(w) ==
    /\ Running /\ workers[w].pc = "arrive"
    /\ workers' = [workers EXCEPT ![w].pc = "barrier"]
    /\ arrived' = arrived \cup {w}
    /\ UNCHANGED <<jobs, files, main, stop, installed, handler, fuzzers,
                   joining, exit_code>>

\* barrier.wait() returns in the worker, which starts fuzzer.fuzz().
WorkerPass(w) ==
    /\ Running /\ workers[w].pc = "barrier" /\ Released
    /\ workers' = [workers EXCEPT ![w].pc = "fuzz"]
    /\ UNCHANGED <<jobs, files, main, arrived, stop, installed, handler,
                   fuzzers, joining, exit_code>>

\* fuzzer.fuzz() observes the stop flag and returns: the thread terminates.
WorkerStop(w) ==
    /\ Running /\ workers[w].pc = "fuzz" /\ stop
    /\ workers' = [workers EXCEPT ![w].pc = "done"]
    /\ UNCHANGED <<jobs, files, main, arrived, stop, installed, handler,
                   fuzzers, joining, exit_code>>

\* An interrupt is delivered: the handler starts.
Interrupt ==
    /\ Running /\ installed /\ handler = "idle"
    /\ handler' = "store"
    /\ UNCHANGED <<jobs, files, main, workers, arrived, stop, installed,
                   fuzzers, joining, exit_code>>

\* stop.store(true, Ordering::Relaxed)
HandlerStore ==
    /\ Running /\ handler = "store"
    /\ stop' = TRUE
    /\ handler' = "pop"
    /\ UNCHANGED <<jobs, files, main, workers, arrived, installed, fuzzers,
                   joining, exit_code>>

\* while !fuzzers.is_empty(): fuzzers.pop()
HandlerPop ==
    /\ Running /\ handler = "pop" /\ fuzzers # <<>>
    /\ joining' = Some(fuzzers[Len(fuzzers)])
    /\ fuzzers' = SubSeq(fuzzers, 1, Len(fuzzers) - 1)
    /\ handler' = "join"
    /\ UNCHANGED <<jobs, files, main, workers, arrived, stop, installed,
                   exit_code>>

\* A join that returns at once.
HandlerJoin_NoWait ==
    /\ Running /\ handler = "join"
    /\ joining' = None
    /\ handler' = "pop"
    /\ UNCHANGED <<jobs, files, main, workers, arrived, stop, installed,
                   fuzzers, exit_code>>

\* f.join() returns once the thread has terminated.
HandlerJoin ==
    /\ Running /\ handler = "join" /\ workers[joining[1]].pc = "done"
    /\ joining' = None
    /\ handler' = "pop"
    /\ UNCHANGED <<jobs, files, main, workers, arrived, stop, installed,
                   fuzzers, exit_code>>

\* exit(0)
HandlerExit ==
    /\ Running /\ handler = "pop" /\ fuzzers = <<>>
    /\ exit_code' = Some(0)
    /\ handler' = "exited"
    /\ UNCHANGED <<jobs, files, main, workers, arrived, stop, installed,
                   fuzzers, joining>>

\* start(conf) with conf.jobs workers, in an out_dir where any of the
\* workers' queue directories may exist.
InitBoot ==
    /\ InitWith(0, None, None, DEFAULT_CULLING_THRESHOLD)
    /\ jobs \in 1..MaxJobs
    /\ files \in SUBSET {<<"out_dir", "queue", w>> : w \in 0..(MaxJobs - 1)}
    /\ main = "spawn"
    /\ workers = [w \in 0..(jobs - 1) |-> Unborn]
    /\ arrived = {}
    /\ stop = FALSE
    /\ installed = FALSE
    /\ handler = "idle"
    /\ fuzzers = <<>>
    /\ joining = None
    /\ exit_code = None

WorkerStep(w) ==
    \/ WorkerQueue(w)
    \/ WorkerBoot(w)
    \/ WorkerFeatures(w)
    \/ WorkerArrive(w)
    \/ WorkerPass(w)
    \/ WorkerStop(w)

MainStep == MainSpawn \/ MainArrive \/ MainPass \/ MainSetHandler \/ MainLog

HandlerStep == HandlerStore \/ HandlerPop \/ HandlerJoin \/ HandlerExit

NextBoot ==
    \/ MainStep /\ UNCHANGED queuevars
    \/ \E w \in WorkerIds : WorkerStep(w) /\ UNCHANGED queuevars
    \/ Interrupt /\ UNCHANGED queuevars
    \/ HandlerStep /\ UNCHANGED queuevars

SpecBoot == InitBoot /\ [][NextBoot]_vars

\* Every thread that can take a step eventually takes one; an interrupt need
\* not come.
SpecBootFair ==
    /\ SpecBoot
    /\ WF_vars(MainStep /\ UNCHANGED queuevars)
    /\ \A w \in 0..(MaxJobs - 1) :
          WF_vars(w \in WorkerIds /\ WorkerStep(w) /\ UNCHANGED queuevars)
    /\ WF_vars(HandlerStep /\ UNCHANGED queuevars)

(* ------------------------------- claims ------------------------------- *)
InSeq(s, i) == \E k \in DOMAIN s : s[k] = i

PendingTiers == {"pending_favored", "pending_found_re", "pending_none_favored"}

\* C1: once the corpus holds an input, every select_idx call returns an index
\* strictly below inputs.len() and never fails, whichever tier ends it.
C1_SelectAlwaysReturns ==
    (call = "select_idx" /\ len >= 1) => (~panicked /\ ret >= 0 /\ ret < len)

\* C2: a weighted choice whose candidates all have score 0 does not fail: a
\* call that ends in a pending tier or in the fallback window has not
\* panicked.
C2_ZeroWeightsTolerated ==
    (call = "select_idx" /\ len >= 1
        /\ tier \in PendingTiers \cup {"age_window", "fallback"})
    => ~panicked

\* A step of append that returned (did not panic), and one inside which
\* culling ran.
AppendReturned == call' = "append" /\ ~panicked'
Culled == cull_order # <<>>

\* C3 as stated: after append returns, len() is the old len() plus exactly 1,
\* also when culling ran inside the append.
C3_AppendAddsOne ==
    [][AppendReturned => Len(inputs') = Len(inputs) + 1]_vars

\* C3 as amended: after append returns, len() is the old len() plus 1 when no
\* culling ran inside the append, and the old len() plus 1 minus the number
\* of inputs the culling discarded (at least 1, at most old + 1) when one ran.
C3_AppendAddsOneUnlessCulled ==
    [][AppendReturned =>
        IF Culled'
        THEN /\ Len(inputs') = Len(inputs) + 1 - discard'
             /\ Len(inputs') >= 1
             /\ Len(inputs') <= Len(inputs) + 1
        ELSE Len(inputs') = Len(inputs) + 1]_vars

\* C3 witness: an append inside which culling ran and discarded an input.
C3_Witness ==
    call = "append" /\ ~panicked /\ Culled /\ discard >= 1
        /\ len = Len(cull_order) - discard

\* Index i is in exactly the side-sets the flags of the input it names imply.
Classified(ins, fav, pfav, pnone, fre, pfre, selfc, i) ==
    LET x == At(ins, i)
    IN  /\ InSeq(fav, i) <=> x.favored
        /\ InSeq(pfav, i) <=> (x.favored /\ ~x.was_mutated)
        /\ InSeq(pnone, i) <=> (~x.favored /\ ~x.was_mutated)
        /\ InSeq(fre, i) <=> x.found_new_re
        /\ InSeq(pfre, i) <=> (x.found_new_re /\ ~x.was_mutated)
        /\ InSeq(selfc, i) <=> x.self_contained

\* The index append assigns (the old len()) names an input of the new queue
\* and is classified by that input's flags.
AppendedClassified ==
    /\ Len(inputs) < Len(inputs')
    /\ Classified(inputs', favored', pending_favored', pending_none_favored',
                  found_re', pending_found_re', self_contained', Len(inputs))

\* C4 as stated: after append returns, the index assigned to the appended
\* input is in every side-set its flags imply and in no other.
C4_AppendClassifies == [][AppendReturned => AppendedClassified]_vars

\* C4 as amended: the same after an append inside which no culling ran (a
\* culling discards or re-indexes the input and recomputes favored).
C4_AppendClassifiesUnlessCulled ==
    [][(AppendReturned /\ ~Culled') =>
        /\ AppendedClassified
        /\ Len(inputs') = Len(inputs) + 1]_vars

\* C4 witness: an append without culling, after a culling, of an input that
\* is self_contained and also favored and found_new_re, never mutated: its
\* index entered self_contained, favored, pending_favored, found_re and
\* pending_found_re, and not pending_none_favored.
C4_Witness ==
    /\ call = "append" /\ ~panicked /\ ~Culled /\ len >= 2
    /\ At(inputs, len - 1).self_contained
    /\ At(inputs, len - 1).favored /\ At(inputs, len - 1).found_new_re
    /\ ~At(inputs, len - 1).was_mutated
    /\ InSeq(self_contained, len - 1)
    /\ InSeq(favored, len - 1) /\ InSeq(pending_favored, len - 1)
    /\ InSeq(found_re, len - 1) /\ InSeq(pending_found_re, len - 1)
    /\ ~InSeq(pending_none_favored, len - 1)

\* The same append of an input the caller had already mutated: its index
\* entered self_contained, favored and found_re and no pending set.
AppendedMutated ==
    /\ call = "append" /\ ~panicked /\ ~Culled /\ len >= 1
    /\ At(inputs, len - 1).self_contained
    /\ At(inputs, len - 1).favored /\ At(inputs, len - 1).found_new_re
    /\ At(inputs, len - 1).was_mutated
    /\ InSeq(self_contained, len - 1)
    /\ InSeq(favored, len - 1) /\ InSeq(found_re, len - 1)
    /\ ~InSeq(pending_favored, len - 1) /\ ~InSeq(pending_found_re, len - 1)
    /\ ~InSeq(pending_none_favored, len - 1)

\* The effect of a to_mutate = true call ending in a pending tier, on that
\* tier's set before (f) and after (g).
Consumed(f, g) ==
    /\ InSeq(f, ret')
    /\ ~InSeq(g, ret')
    /\ Len(g) = Len(f) - 1
    /\ Range(g) = Range(f) \ {ret'}
    /\ At(inputs', ret').was_mutated

\* C5: a select_idx(true) that resolves via a pending tier removes the index
\* it returns from that tier's set, which shrinks by exactly one element, and
\* leaves the input at that index with was_mutated = true.
C5_PendingConsumed ==
    [][(call' = "select_idx" /\ to_mutate' /\ ~panicked'
            /\ tier' \in PendingTiers) =>
        /\ tier' = "pending_favored" =>
              Consumed(pending_favored, pending_favored')
        /\ tier' = "pending_found_re" =>
              Consumed(pending_found_re, pending_found_re')
        /\ tier' = "pending_none_favored" =>
              Consumed(pending_none_favored, pending_none_favored')]_vars

\* C5 witness: select_idx(true) took one of two pending found_new_re inputs.
C5_Witness ==
    /\ call = "select_idx" /\ to_mutate /\ ~panicked
    /\ tier = "pending_found_re"
    /\ At(inputs, ret).was_mutated
    /\ Len(pending_found_re) = 1 /\ Len(found_re) = 2

\* C6: select_idx(false) changes nothing of the queue but the cursor current.
C6_SelectFalseFrame ==
    [][(call' = "select_idx" /\ ~to_mutate') =>
        UNCHANGED <<inputs, last_num, culling_threshold, culling_duration,
                    favored, pending_favored, pending_none_favored, found_re,
                    pending_found_re, self_contained, score_sheet, min_score,
                    input_depth, current_age>>]_vars

\* C6 witness: select_idx(false) resolved via pending_favored and the index
\* it returned is still pending, its input not marked.
C6_Witness ==
    /\ call = "select_idx" /\ ~to_mutate /\ ~panicked
    /\ tier = "pending_favored"
    /\ InSeq(pending_favored, ret)
    /\ ~At(inputs, ret).was_mutated

\* The appends made since the queue was created or since the end of the last
\* culling (which left last_num - discard inputs).
AppendsSince == len - (last_num - discard)

\* C7 as stated: with culling_threshold = k and a duration that never
\* elapses, culling runs during an append exactly when it is the (k+1)-th
\* since creation or since the end of the previous culling.
C7_CullingEveryKPlusOne ==
    [][call' = "append" => (Culled' <=> AppendsSince = culling_threshold)]_vars

\* C7 as amended: culling runs during an append exactly when it is the
\* (k+1+d)-th since creation or since the end of the previous culling, d being
\* the number of inputs that culling discarded (0 at creation): last_num is
\* the corpus size before the discards.
C7_CullingEveryKPlusOnePlusDiscarded ==
    [][call' = "append" =>
        (Culled' <=> AppendsSince = culling_threshold + discard)]_vars

\* C7 witness: the second culling of a queue whose first culling, of k+1
\* inputs, discarded carried >= 1 of them.  It ran on 2(k+1) inputs, that is
\* during the (k+1+carried)-th append after the first culling.
C7_Witness ==
    /\ call = "append" /\ Culled /\ ~panicked
    /\ current_age = 2 /\ carried >= 1
    /\ Len(cull_order) = 2 * (culling_threshold + 1)

\* The state the second culling of C7_Witness starts from: k + carried
\* appends after a culling that discarded, none of which culled.
AwaitingSecondCulling ==
    /\ call = "append" /\ ~Culled /\ current_age = 1 /\ discard >= 1
    /\ AppendsSince = culling_threshold + discard

\* The branches of the inputs the culling order places before position p.
CoveredBefore(p) == UNION {cull_order[k].info : k \in 1..(p - 1)}

\* C8: after culling, the culling order is length descending then score
\* descending; each retained input's new_cov is the branches of its info no
\* earlier input of that order covers, and it is favored iff that set is
\* non-empty; the new_cov sets are pairwise disjoint and their union is the
\* union of the branches of all pre-culling inputs.
C8_CullingMergesCoverage ==
    (call = "append" /\ Culled /\ ~panicked) =>
        /\ \A a, b \in 1..Len(cull_order) :
              a < b => \/ cull_order[a].len > cull_order[b].len
                       \/ /\ cull_order[a].len = cull_order[b].len
                          /\ cull_order[a].score >= cull_order[b].score
        /\ \A j \in 1..len :
              /\ inputs[j].new_cov =
                    cull_order[cull_origin[j]].info \ CoveredBefore(cull_origin[j])
              /\ inputs[j].favored <=> (inputs[j].new_cov # {})
        /\ \A i, j \in 1..len :
              i # j => inputs[i].new_cov \cap inputs[j].new_cov = {}
        /\ UNION {inputs[j].new_cov : j \in 1..len}
              = UNION {cull_order[k].info : k \in 1..Len(cull_order)}

\* C8 witness: a culling after which an input covering {1,2} owns both and an
\* input covering the same branches, placed after it, owns none.
C8_Witness ==
    /\ call = "append" /\ Culled /\ ~panicked
    /\ \E i, j \in 1..len :
          /\ cull_origin[i] < cull_origin[j]
          /\ inputs[i].info = Branches /\ inputs[i].new_cov = Branches
          /\ inputs[j].info = Branches /\ inputs[j].new_cov = {}
          /\ ~inputs[j].favored

\* The fields of an input culling does not write.
Program(x) ==
    [len |-> x.len, info |-> x.info, found_new_re |-> x.found_new_re,
     self_contained |-> x.self_contained, was_mutated |-> x.was_mutated,
     depth |-> x.depth]

\* C9: culling discards only inputs that own no branch new to the running
\* set and have length <= 2, whatever favored flag they carried before; the
\* post-culling corpus is a sub-multiset of the pre-culling corpus and not
\* larger than it.
C9_CullingDiscardsOnlyShortUnfavored ==
    (call = "append" /\ Culled /\ ~panicked) =>
        /\ Len(cull_origin) = len
        /\ len <= Len(cull_order)
        /\ \A j \in 1..len :
              /\ cull_origin[j] \in 1..Len(cull_order)
              /\ Program(inputs[j]) = Program(cull_order[cull_origin[j]])
        /\ \A i, j \in 1..len : i # j => cull_origin[i] # cull_origin[j]
        /\ \A k \in 1..Len(cull_order) :
              k \notin Range(cull_origin) =>
                 /\ cull_order[k].len <= DISCARD_LEN
                 /\ cull_order[k].info \subseteq CoveredBefore(k)

\* C9 witness: a culling discarded an input that was favored before it, and
\* retained an input of length > 2 that owns no branch.
C9_Witness ==
    /\ call = "append" /\ Culled /\ ~panicked
    /\ \E k \in 1..Len(cull_order) :
          k \notin Range(cull_origin) /\ cull_order[k].favored
    /\ \E j \in 1..len : inputs[j].len > DISCARD_LEN /\ ~inputs[j].favored

\* C10: after every append, with or without culling, score_sheet has one
\* entry per input and score_sheet[i] = (inputs[i].score, i).
C10_ScoreSheetConsistent ==
    (call = "append" /\ ~panicked) =>
        /\ Len(score_sheet) = len
        /\ \A i \in 0..(len - 1) :
              At(score_sheet, i) = <<At(inputs, i).score, i>>

\* C10 witness: a culling rescored and reshuffled two inputs, and the sheet
\* holds their new, different scores.
C10_Witness ==
    /\ call = "append" /\ Culled /\ ~panicked /\ len = 2
    /\ cull_origin = <<2, 1>>
    /\ At(score_sheet, 0)[1] # At(score_sheet, 1)[1]
    /\ At(inputs, 0).score # cull_order[2].score

\* The number of times index i occurs in the depth bucket b.
Occurrences(b, i) == Cardinality({k \in DOMAIN b : b[k] = i})

\* The greatest depth among the inputs of a non-empty corpus.
MaxDepthOf(ins) ==
    CHOOSE m \in {ins[k].depth : k \in DOMAIN ins} :
        \A k \in DOMAIN ins : ins[k].depth <= m

\* C11: every input index occurs exactly once in the depth buckets, in the
\* bucket of its input's depth, and for a non-empty corpus the number of
\* buckets is one plus the greatest depth in the corpus, also right after a
\* culling.
C11_DepthBuckets ==
    ~panicked =>
        /\ \A i \in 0..(len - 1), b \in 0..(Len(input_depth) - 1) :
              Occurrences(At(input_depth, b), i)
                 = IF b = At(inputs, i).depth THEN 1 ELSE 0
        /\ \A i \in 0..(len - 1) : At(inputs, i).depth < Len(input_depth)
        /\ \A b \in DOMAIN input_depth : Range(input_depth[b]) \subseteq 0..(len - 1)
        /\ len >= 1 => Len(input_depth) = 1 + MaxDepthOf(inputs)

\* C11 witness: a culling discarded the only input of the greatest depth, and
\* the successor has fewer buckets than that depth needs.
C11_Witness ==
    /\ call = "append" /\ Culled /\ ~panicked /\ len >= 1
    /\ \E k \in 1..Len(cull_order) :
          /\ k \notin Range(cull_origin)
          /\ cull_order[k].depth >= Len(input_depth)

\* C12: a culling that returns installs a successor whose current_age is the
\* old one plus 1, whose last_num is the corpus size before the discards,
\* whose current is 0 and whose id, culling_threshold, culling_duration,
\* queue_dir and stats are those of the old queue; current_age is the number
\* of cullings made since creation.
C12_CullingSuccessor ==
    [][/\ (AppendReturned /\ Culled') =>
            /\ current_age' = current_age + 1
            /\ last_num' = Len(inputs) + 1
            /\ last_num' = Len(cull_order')
            /\ current' = 0
            /\ id' = id
            /\ culling_threshold' = culling_threshold
            /\ culling_duration' = culling_duration
            /\ queue_dir' = queue_dir
            /\ stats' = stats
       /\ ~panicked' => current_age' = cullings']_vars

\* C12 witness: worker 0's queue, with a queue_dir and the stats handle,
\* after its second culling, which ran on MaxSweepInputs inputs and
\* discarded one.
C12_Witness ==
    /\ call = "append" /\ Culled /\ ~panicked
    /\ current_age = 2 /\ cullings = 2 /\ discard >= 1
    /\ Len(cull_order) = MaxSweepInputs
    /\ last_num = len + discard /\ current = 0
    /\ id = 0 /\ stats # None /\ queue_dir # None

\* The index sets of the queue, and the indices stored in the score sheet.
SideSets ==
    {favored, pending_favored, pending_none_favored, found_re,
     pending_found_re, self_contained} \cup Range(input_depth)
SheetIndices == [k \in DOMAIN score_sheet |-> score_sheet[k][2]]

\* No element occurs twice in the sequence f.
NoDuplicate(f) == \A a, b \in DOMAIN f : a # b => f[a] # f[b]

\* Every stored index names an input, and no set stores an index twice.
IndicesInRange ==
    /\ \A f \in SideSets \cup {SheetIndices} :
          Range(f) \subseteq 0..(len - 1) /\ NoDuplicate(f)
    /\ min_score[2] < len

\* C13 as stated: in every reachable state every index stored in the
\* side-sets, score_sheet, min_score and the depth buckets is below
\* inputs.len(), and no side-set holds an index twice.
C13_IndicesInRange == ~panicked => IndicesInRange

\* C13 as amended: the same in every reachable state with a non-empty corpus;
\* in the empty queue the sets are empty and min_score holds the placeholder
\* index 0 of Queue::new.
C13_IndicesInRangeNonEmpty ==
    ~panicked =>
        IF len >= 1 THEN IndicesInRange
        ELSE /\ \A f \in SideSets \cup {SheetIndices} : f = <<>>
             /\ min_score = <<USIZE_MAX, 0>>

\* C13 witness: a culling discarded an input and re-issued the indices below
\* the new len() to the retained inputs, some of them favored.
C13_Witness ==
    /\ call = "append" /\ Culled /\ ~panicked /\ discard >= 1
    /\ len >= 1 /\ cull_origin # [j \in 1..len |-> j]
    /\ favored # <<>> /\ pending_favored # <<>>

\* The main thread is past the startup barrier.
MainPassed == main \in {"set_handler", "log", "bench"}

\* Worker w has its queue, its execution backend and its features, and has
\* called barrier.wait().
WorkerReady(w) ==
    /\ workers[w].queue # None
    /\ workers[w].exec_handle
    /\ workers[w].features
    /\ w \in arrived
    /\ workers[w].pc \in {"barrier", "fuzz", "done"}

\* C14: with a barrier of size jobs + 1 the main thread is past the startup
\* barrier, the handler is installed and "Boot finished" is logged only when
\* every worker has initialised its queue, booted its backend, finished
\* feature detection and arrived at the barrier.
C14_BootBarrier ==
    /\ (MainPassed \/ installed) => \A w \in WorkerIds : WorkerReady(w)
    /\ installed => MainPassed
    /\ main = "bench" => installed

\* C14 witness: the main thread is past the barrier of MaxJobs workers while
\* one of them has not yet returned from barrier.wait().
C14_Witness ==
    /\ main = "set_handler" /\ jobs = MaxJobs /\ ~installed
    /\ \E w \in WorkerIds : workers[w].pc = "barrier"
    /\ \E w \in WorkerIds : workers[w].pc = "fuzz"

\* C15: the handler sets the stop flag before it joins a worker, the process
\* exits with status 0 only when every worker thread has terminated, the flag
\* is never reset, and once the handler runs the process eventually exits
\* with status 0 (every worker terminating once it observes the flag).
C15_Shutdown ==
    /\ [](handler \in {"pop", "join", "exited"} => stop)
    /\ [](exit_code = Some(0) =>
            /\ handler = "exited"
            /\ \A w \in WorkerIds : workers[w].pc = "done")
    /\ [][stop => stop']_vars
    /\ (handler = "store") ~> (exit_code = Some(0))

\* C15 witness: the process exited with status 0 after MaxJobs workers stopped.
C15_Witness ==
    /\ exit_code = Some(0) /\ jobs = MaxJobs /\ stop
    /\ \A w \in WorkerIds : workers[w].pc = "done"

\* The queue directory of worker w exists.
QueueDirExists(w) == <<"out_dir", "queue", w>> \in files

\* C16: with_workdir returns the Unimplemented error and no queue when
\* work_dir/queue-<id> exists, and a fresh empty queue with the default
\* thresholds and queue_dir set otherwise; a worker that gets the error exits
\* the process with status 1 before it boots its backend or reaches the barrier.
C16_NoResume ==
    \A w \in WorkerIds :
        LET r == with_workdir(w, "out_dir", files)
            past == workers[w].pc \notin {"unborn", "start"}
        IN  IF QueueDirExists(w)
            THEN /\ ~r.ok /\ r.val = None /\ r.err = Some("Unimplemented")
                 /\ workers[w].queue = None
                 /\ past =>
                      /\ workers[w].pc = "exited"
                      /\ exit_code = Some(1)
                      /\ ~workers[w].exec_handle
                      /\ ~workers[w].features
                      /\ w \notin arrived
                      /\ ~MainPassed
            ELSE /\ r.ok /\ r.err = None
                 /\ r.val[1].inputs = <<>>
                 /\ r.val[1].culling_threshold = 128
                 /\ r.val[1].culling_duration = 15 * 60
                 /\ r.val[1].queue_dir = Some(<<"out_dir", "queue", w>>)
                 /\ r.val[1].id = w
                 /\ past =>
                      /\ workers[w].queue # None
                      /\ workers[w].queue[1].inputs = r.val[1].inputs
                      /\ workers[w].queue[1].queue_dir = r.val[1].queue_dir
                      /\ workers[w].queue[1].culling_threshold = 128

\* C16 witness: a worker found its queue directory and exited the process
\* while another worker had its queue and its backend.
C16_Witness ==
    /\ exit_code = Some(1)
    /\ \E w \in WorkerIds :
          QueueDirExists(w) /\ workers[w].pc = "exited"
    /\ \E w \in WorkerIds :
          ~QueueDirExists(w) /\ workers[w].queue # None /\ workers[w].exec_handle

\* A step of select_idx that ended in tier t, and one that returned an index
\* from it.
Entered(t) == call' = "select_idx" /\ tier' = t
Resolved(t) == Entered(t) /\ ~panicked' /\ ret' # NoIdx

\* The conditions under which each pending tier is due, from the sets of the
\* pre-state and the rolls the call made.
DuePendingFavored == pending_favored # <<>> /\ rolls'[1] \in 1..90
DuePendingFoundRe ==
    ~DuePendingFavored /\ pending_found_re # <<>> /\ rolls'[2] \in 1..60
DuePendingNoneFavored ==
    /\ ~DuePendingFavored /\ ~DuePendingFoundRe
    /\ pending_none_favored # <<>> /\ rolls'[3] \in 1..29

\* A roll is made for a tier only when no tier before it is due and its set
\* is non-empty.
RollsOnlyWhenNonEmpty ==
    /\ rolls'[1] # 0 <=> pending_favored # <<>>
    /\ rolls'[2] # 0 <=> (~DuePendingFavored /\ pending_found_re # <<>>)
    /\ rolls'[3] # 0 <=>
          /\ ~DuePendingFavored /\ ~DuePendingFoundRe
          /\ pending_none_favored # <<>>

\* The order and the thresholds of the pending tiers, a call that panics in
\* the weighted choice of a tier counted as having taken that tier.
PendingTiersEntered ==
    [][call' = "select_idx" =>
        /\ RollsOnlyWhenNonEmpty
        /\ Entered("pending_favored") <=> DuePendingFavored
        /\ Entered("pending_found_re") <=> DuePendingFoundRe
        /\ Entered("pending_none_favored") <=> DuePendingNoneFavored
        /\ Resolved("pending_favored") => InSeq(pending_favored, ret')
        /\ Resolved("pending_found_re") => InSeq(pending_found_re, ret')
        /\ Resolved("pending_none_favored") =>
              InSeq(pending_none_favored, ret')]_vars

\* C17: the pending tiers are tried in the order pending_favored,
\* pending_found_re, pending_none_favored, each rolling only when its set is
\* non-empty; pending_favored resolves iff non-empty and r <= 90, otherwise
\* pending_found_re iff non-empty and r <= 60, otherwise pending_none_favored
\* iff non-empty and r < 30, and the index returned by the tier that resolves
\* is a member of that tier's set in the pre-state.
C17_PendingTiersResolve ==
    [][call' = "select_idx" =>
        /\ RollsOnlyWhenNonEmpty
        /\ Resolved("pending_favored") <=> DuePendingFavored
        /\ Resolved("pending_found_re") <=> DuePendingFoundRe
        /\ Resolved("pending_none_favored") <=> DuePendingNoneFavored
        /\ Resolved("pending_favored") => InSeq(pending_favored, ret')
        /\ Resolved("pending_found_re") => InSeq(pending_found_re, ret')
        /\ Resolved("pending_none_favored") =>
              InSeq(pending_none_favored, ret')]_vars

DurableTiers ==
    {"favored", "found_re", "self_contained", "age_window", "deepest"}

\* s is an initial segment of t.
IsPrefix(s, t) == Len(s) <= Len(t) /\ \A k \in DOMAIN s : s[k] = t[k]

\* A step inside which culling ran (to its end or to a panic).
CullingStep == call' = "append" /\ (Culled' \/ panicked')

\* C18: a selection that ends in a durable tier (favored, found_re,
\* self_contained, age-weighted window, deepest bucket) or in the fallback
\* removes no index from any side-set and sets no was_mutated, also with
\* to_mutate = true, so the chosen input stays in its pending sets; and on
\* every step without a culling favored, found_re and self_contained only grow.
C18_DurableTiersKeepSets ==
    [][/\ (call' = "select_idx" /\ tier' \in DurableTiers \cup {"fallback"}) =>
            /\ inputs' = inputs
            /\ favored' = favored
            /\ found_re' = found_re
            /\ self_contained' = self_contained
            /\ pending_favored' = pending_favored
            /\ pending_found_re' = pending_found_re
            /\ pending_none_favored' = pending_none_favored
            /\ score_sheet' = score_sheet
            /\ input_depth' = input_depth
       /\ ~CullingStep =>
            /\ IsPrefix(favored, favored')
            /\ IsPrefix(found_re, found_re')
            /\ IsPrefix(self_contained, self_contained')]_vars

\* C18 witness: select_idx(true) returned, through the favored tier, an input
\* that is still pending and still not marked as mutated.
C18_Witness ==
    /\ call = "select_idx" /\ to_mutate /\ ~panicked
    /\ tier = "favored"
    /\ InSeq(pending_favored, ret)
    /\ ~At(inputs, ret).was_mutated

PendingSets == {pending_favored, pending_found_re, pending_none_favored}

\* C19: every index in pending_favored, pending_found_re or
\* pending_none_favored refers to an input with was_mutated = false, so an
\* input handed out by a pending tier under to_mutate = true is in no pending
\* set afterwards, also when it is both favored and found_new_re.
C19_PendingNotMutated ==
    ~panicked =>
        \A f \in PendingSets : \A k \in DOMAIN f :
            f[k] < len => ~At(inputs, f[k]).was_mutated

\* The exclusive end of the fallback window that starts at current.
WindowEnd == IF current + WINDOW_SZ > len THEN len ELSE current + WINDOW_SZ

\* C20: current < inputs.len() whenever the corpus is non-empty; a fallback
\* selection picks from the indices [current, min(current + 8, len)) and then
\* sets current to (current + 1) mod len; so the last n fallback selections
\* made on n inputs without an append or a culling in between started their
\* windows at each index 0..n-1 exactly once.
C20_RoundRobinSweep ==
    /\ [](len >= 1 => current < len)
    /\ [][(Entered("fallback") /\ len >= 1) =>
            /\ current' = (current + 1) % len
            /\ inputs' = inputs
            /\ ~panicked' => (ret' >= current /\ ret' < WindowEnd)]_vars
    /\ []((len >= 1 /\ Len(sweep) = len) => Range(sweep) = 0..(len - 1))

\* C20 witness: MaxWindowInputs consecutive fallback windows on
\* MaxWindowInputs inputs, the first of which started at index 3, the last of
\* which returned an index other than its start.
C20_Witness ==
    /\ len = MaxWindowInputs /\ Len(sweep) = len /\ sweep[1] = 3
    /\ call = "select_idx" /\ tier = "fallback" /\ ~panicked
    /\ current = 3 /\ ret = 9

\* The index of the input whose entry is the last one in the score sheet.
LastInSheet == score_sheet[Len(score_sheet)][2]

\* What the age-weighted window tier does return: after a culling only, and
\* on a corpus of more than WINDOW_SZ inputs never the last entry of the sheet.
AgeWindowMissesLast ==
    (call = "select_idx" /\ tier = "age_window" /\ ~panicked) =>
        /\ current_age >= 1
        /\ ret >= 0 /\ ret < len
        /\ len > WINDOW_SZ => ret # LastInSheet

\* C21: the age-weighted window tier resolves only when current_age >= 1;
\* on more than 8 inputs its window may start at any offset 0..len-8 and on
\* 8 or fewer it is the whole sheet, so every input with positive score, the
\* last one in the sheet included, lies in some window the tier can draw.
C21_AgeWindowCoversSheet ==
    /\ (call = "select_idx" /\ tier = "age_window" /\ ~panicked) =>
            current_age >= 1
    /\ (current_age >= 1 /\ ~panicked /\ len >= 1) =>
          /\ AgeWindowStarts =
                IF len > 8 THEN 0..(len - 8) ELSE {0}
          /\ \A k \in DOMAIN score_sheet :
                score_sheet[k][1] > 0 =>
                    \E start \in AgeWindowStarts :
                        score_sheet[k] \in AgeWindow(start)

\* Worker w is in (or has returned from) fuzzer.fuzz().
Fuzzing(w) == workers[w].pc \in {"fuzz", "done"}

\* Worker w failed queue initialisation or backend boot and called exit(1).
Failed(w) == workers[w].pc = "exited"

\* C23: no worker enters the fuzz loop before every worker has booted its
\* execution backend; a worker whose queue initialisation or backend boot
\* fails exits the process with non-zero status, and then the barrier is
\* never released: no other worker passes it and the main thread neither
\* installs the handler nor reports that boot finished.
C23_NoFuzzBeforeAllBooted ==
    /\ \A w \in WorkerIds :
          Fuzzing(w) => \A v \in WorkerIds : workers[v].exec_handle
    /\ \A w \in WorkerIds :
          Failed(w) =>
              /\ exit_code = Some(1)
              /\ ~workers[w].exec_handle
              /\ ~Released
              /\ ~MainPassed /\ ~installed
              /\ \A v \in WorkerIds : ~Fuzzing(v)
    /\ exit_code = Some(1) => \E w \in WorkerIds : Failed(w)

\* C23 witness: a worker failed to boot its backend after its queue was
\* initialised, while another worker and the main thread wait at the barrier.
C23_Witness ==
    /\ jobs = MaxJobs /\ exit_code = Some(1)
    /\ \E w \in WorkerIds : Failed(w) /\ workers[w].queue # None
    /\ \E v \in WorkerIds : workers[v].pc = "barrier"
    /\ MainThread \in arrived

\* C24: culling never empties the corpus: it retains at least one input, so
\* every append returns (the average score divides by a non-zero number of
\* retained inputs) and leaves len() >= 1, also when no input has a recorded
\* branch and every input has length <= 2.
C24_CullingRetainsOne ==
    call = "append" =>
        /\ ~panicked
        /\ len >= 1
        /\ Culled => discard < Len(cull_order)

\* The number of calls of syscall c in the programs of the corpus ins.
RECURSIVE Calls(_, _)
Calls(ins, c) ==
    IF ins = <<>> THEN 0
    ELSE Cardinality({k \in DOMAIN Head(ins).calls : Head(ins).calls[k] = c})
         + Calls(Tail(ins), c)

\* C22: the call-count table holds, for each syscall, exactly the number of
\* its occurrences in the programs of the inputs currently in the corpus:
\* append counts the calls of the new input, culling recounts the retained
\* inputs only, and no entry has count 0.
C22_CallCountsExact ==
    ~panicked =>
        /\ DOMAIN call_cnt = {c \in Syscalls : Calls(inputs, c) > 0}
        /\ \A c \in DOMAIN call_cnt : call_cnt[c] = Calls(inputs, c)
        /\ \A c \in DOMAIN call_cnt : call_cnt[c] >= 1

\* C22 witness: a culling discarded the only input that called some syscall,
\* which is no longer in the table, and kept an input.
C22_Witness ==
    /\ call = "append" /\ ~panicked /\ Culled /\ discard >= 1 /\ len >= 1
    /\ \E c \in Syscalls : c \notin DOMAIN call_cnt /\ Calls(cull_order, c) > 0
    /\ \E c \in Syscalls : c \in DOMAIN call_cnt /\ call_cnt[c] >= 2

\* What a dump that succeeded leaves on disk: the queue's directory exists,
\* so that Queue::with_workdir on the same id and work_dir is refused from
\* then on.  A dump that failed promises nothing, and a call that dumps
\* nothing leaves the disk as it was.
CullingDumps ==
    /\ dumped # "none" => (call \in {"append", "dump"} /\ queue_dir # None)
    /\ (call = "append" /\ Culled /\ ~panicked /\ queue_dir # None) =>
            dumped # "none"
    /\ dumped = "ok" =>
        /\ queue_dir[1] \in files
        /\ ~with_workdir(id, "out_dir", files).ok
        /\ with_workdir(id, "out_dir", files).err = Some("Unimplemented")

\* A culling whose dump failed in create_dir_all returned with no directory.
DumpFailed ==
    /\ call = "append" /\ Culled /\ ~panicked /\ current_age = 1
    /\ dumped = "err" /\ files = {}

====
